---- MODULE Spec2Model ----
(***************************************************************************)
(* Job orchestration and dispatch of the file converter: the Job Manager   *)
(* (upload, cancel, retry-uploaded, cleanup), the Redis priority queue and *)
(* the conversion worker loops, over the Job Store (jobs table), the       *)
(* Object Store (MinIO bucket) and the queues (Redis sorted sets).         *)
(***************************************************************************)
EXTENDS Integers, Sequences, FiniteSets, TLC

\* ------------------------------------------------------------------ bounds
MaxJobs == 2            \* job ids (uuid strings, in string order)
MaxUploads == 1         \* upload requests served, each drawing a fresh job id
WorkersPerQueue == 2    \* worker loops consuming one queue
MaxAdminOps == 1        \* cancel, retry-uploaded and cleanup requests served
MaxTicks == 1           \* advances of the clock
MaxQueueOps == 4        \* operations applied to the bare queue

\* ------------------------------------------------------- program constants
JOB_EXPIRY_HOURS == 24
FAILED_JOB_EXPIRY_HOURS == 6
UPLOAD_PRIORITY == 1
TickHours == 25         \* one advance of the clock, in hours

\* ---------------------------------------------------------------- enums
JobStatus == {"uploaded", "pending", "processing", "completed", "failed", "cancelled"}

ConversionType ==
    {"docx_to_pdf", "pdf_to_docx", "pdf_to_jpg", "pdf_to_png", "jpg_to_pdf", "png_to_pdf"}

QueueName ==
    {"queue:docx_pdf", "queue:pdf_docx", "queue:pdf_image", "queue:image_pdf"}

JobIds == 1..MaxJobs
NONE == "none"

\* A row of the jobs table; status NONE stands for "no such row".
NoRow ==
    [status |-> NONE, conversion_type |-> NONE, filename |-> NONE,
     file_path |-> <<>>, output_path |-> <<>>,
     created_at |-> 0, completed_at |-> -1, error_message |-> NONE]

\* Job(...) as upload_file constructs it.
Job(id, filename, conv_type, file_path, created) ==
    [status |-> "uploaded", conversion_type |-> conv_type, filename |-> filename,
     file_path |-> file_path, output_path |-> <<>>,
     created_at |-> created, completed_at |-> -1, error_message |-> NONE]

\* QueueMessage; metadata is reduced to the one key that differs between the
\* message upload builds and the one retry-uploaded builds ("retry": True).
QueueMessage(job_id, conv_type, file_path, priority, retry) ==
    [job_id |-> job_id, conversion_type |-> conv_type, file_path |-> file_path,
     priority |-> priority, retry |-> retry]

\* --------------------------------------------------- the queue (queue.py)
NoMsg == QueueMessage(0, NONE, <<>>, 0, FALSE)

\* Rank of a conversion type's text in string order (json text is compared
\* byte by byte by the sorted set when scores tie).
TypeRank(t) ==
    CASE t = "docx_to_pdf" -> 1
      [] t = "jpg_to_pdf" -> 2
      [] t = "pdf_to_docx" -> 3
      [] t = "pdf_to_jpg" -> 4
      [] t = "pdf_to_png" -> 5
      [] t = "png_to_pdf" -> 6
      [] OTHER -> 0

\* to_json(a) < to_json(b) as strings: keys are written in the order job_id,
\* conversion_type, file_path, filename, priority, retry_count, metadata; the
\* metadata of a retry message continues with ', "retry": true' where the
\* upload message closes with '}', and ',' sorts before '}'.  Job ids stand
\* for uuid strings in their string order; priorities are single digits.
to_json_less(a, b) ==
    \/ a.job_id < b.job_id
    \/ /\ a.job_id = b.job_id
       /\ TypeRank(a.conversion_type) < TypeRank(b.conversion_type)
    \/ /\ a.job_id = b.job_id
       /\ TypeRank(a.conversion_type) = TypeRank(b.conversion_type)
       /\ a.priority < b.priority
    \/ /\ a.job_id = b.job_id
       /\ TypeRank(a.conversion_type) = TypeRank(b.conversion_type)
       /\ a.priority = b.priority
       /\ a.retry /\ ~b.retry

\* enqueue line 65: score = -message.priority.
Score(m) == 0 - m.priority

\* Order of a Redis sorted set: by score, ties by member text.
ZLess(a, b) ==
    \/ Score(a) < Score(b)
    \/ Score(a) = Score(b) /\ to_json_less(a, b)

ZMax(S) == CHOOSE m \in S : \A o \in S \ {m} : ZLess(o, m)
ZMin(S) == CHOOSE m \in S : \A o \in S \ {m} : ZLess(m, o)

RECURSIVE ZRange(_)
ZRange(S) == IF S = {} THEN <<>> ELSE <<ZMin(S)>> \o ZRange(S \ {ZMin(S)})

RECURSIVE ZRevRange(_)
ZRevRange(S) == IF S = {} THEN <<>> ELSE <<ZMax(S)>> \o ZRevRange(S \ {ZMax(S)})

\* An enqueue that stores a second entry for a message already present.
enqueue_tagging(qs, queue_name, message, redis_ok) ==
    IF ~redis_ok THEN [queues |-> qs, result |-> FALSE]
    ELSE IF message \in qs[queue_name]
    THEN [queues |-> [qs EXCEPT ![queue_name] = @ \cup {[message EXCEPT !.retry = TRUE]}],
          result |-> TRUE]
    ELSE [queues |-> [qs EXCEPT ![queue_name] = @ \cup {message}], result |-> TRUE]

\* RedisQueue.enqueue: ZADD answers the number of members added, 0 for a
\* member already present; an exception (redis_ok false) answers False.
enqueue(qs, queue_name, message, redis_ok) ==
    IF ~redis_ok THEN [queues |-> qs, result |-> FALSE]
    ELSE IF message \in qs[queue_name] THEN [queues |-> qs, result |-> FALSE]
    ELSE [queues |-> [qs EXCEPT ![queue_name] = @ \cup {message}], result |-> TRUE]

\* A dequeue that reads the top member and leaves it in the set (ZREVRANGE
\* where BZPOPMAX is meant).
dequeue_without_pop(qs, queue_name, redis_ok) ==
    IF ~redis_ok \/ qs[queue_name] = {} THEN [queues |-> qs, message |-> NoMsg]
    ELSE [queues |-> qs, message |-> ZMax(qs[queue_name])]

\* RedisQueue.dequeue: BZPOPMAX pops the member with the highest score; a
\* timeout on an empty queue and an exception both answer None.
dequeue(qs, queue_name, redis_ok) ==
    IF ~redis_ok \/ qs[queue_name] = {} THEN [queues |-> qs, message |-> NoMsg]
    ELSE [queues |-> [qs EXCEPT ![queue_name] = @ \ {ZMax(@)}],
          message |-> ZMax(qs[queue_name])]

\* A peek that reads the set from its low end (ZRANGE where ZREVRANGE is
\* meant).
peek_ascending(qs, queue_name, count) ==
    SubSeq(ZRange(qs[queue_name]), 1,
           IF count < Cardinality(qs[queue_name]) THEN count
           ELSE Cardinality(qs[queue_name]))

\* RedisQueue.peek: ZREVRANGE 0 .. count-1.
peek(qs, queue_name, count) ==
    SubSeq(ZRevRange(qs[queue_name]), 1,
           IF count < Cardinality(qs[queue_name]) THEN count
           ELSE Cardinality(qs[queue_name]))

\* RedisQueue.get_queue_size: ZCARD.
get_queue_size(qs, queue_name) == Cardinality(qs[queue_name])

\* RedisQueue.remove_job: scans ZRANGE 0 -1 and returns at the first member
\* whose job_id matches and whose ZREM answers 1.
remove_job(qs, queue_name, job_id, redis_ok) ==
    LET hits == {m \in qs[queue_name] : m.job_id = job_id}
    IN  IF ~redis_ok \/ hits = {} THEN [queues |-> qs, result |-> FALSE]
        ELSE [queues |-> [qs EXCEPT ![queue_name] = @ \ {ZMin(hits)}],
              result |-> TRUE]

\* ------------------------------------------------------------------ state
VARIABLES
    jobs,       \* Job Store: job id -> row (status NONE: no row)
    objects,    \* Object Store: the set of object names present
    queues,     \* Priority Queue: queue name -> set of messages
    now,        \* the clock, in hours
    ticks,      \* advances of the clock so far
    up,         \* upload requests, one per job id
    cn,         \* the cancel request in flight
    rt,         \* the retry-uploaded request in flight
    cl,         \* the cleanup request in flight
    served,     \* cancel, retry-uploaded and cleanup requests begun so far
    resp,       \* the response the last step returned to its caller, if any
    wk,         \* worker loops
    proto,      \* history: the protocol steps each upload has completed, in order
    enqCount,   \* history: successful enqueues per message
    deqCount,   \* history: successful dequeues per message
    qlog,       \* calls made on the queue alone: their number, the last call,
                \* the queues before it and what it answered
    pool        \* worker pools: is_running, worker_tasks, active_jobs, and the
                \* tasks a stop() in progress is waiting for

storeVars == <<jobs, objects, queues>>
clockVars == <<now, ticks>>
admVars   == <<cn, rt, cl, served>>
reqVars   == <<up, cn, rt, cl, served>>
histVars  == <<proto, enqCount, deqCount>>
vars == <<jobs, objects, queues, now, ticks, up, cn, rt, cl, served, resp, wk,
          proto, enqCount, deqCount, qlog, pool>>

Workers == QueueName \X (0..(WorkersPerQueue - 1))

\* The three services, each with one pool, and the queues their loops serve.
Pools == {"docx-pdf", "pdf-docx", "image"}
PoolQueues(p) ==
    CASE p = "docx-pdf" -> {"queue:docx_pdf"}
      [] p = "pdf-docx" -> {"queue:pdf_docx"}
      [] OTHER -> {"queue:pdf_image", "queue:image_pdf"}
PoolOf(w) == CHOOSE p \in Pools : w[1] \in PoolQueues(p)
PoolTasks(p) == {w \in Workers : w[1] \in PoolQueues(p)}

\* A pool with all its loops started, as the service runs it after startup.
RunningPool(p) ==
    [is_running |-> TRUE, worker_tasks |-> PoolTasks(p), active_jobs |-> {},
     stopping |-> FALSE, gathered |-> {}, driven |-> FALSE]
MsgKeys == JobIds \X BOOLEAN
KeyOf(m) == <<m.job_id, m.retry>>

\* f"uploads/{job_id}_{file.filename}" and f"converted/{job_id}.{ext}".
UploadPath(job_id, filename) == <<"uploads", job_id, filename>>
ConvertedPath(job_id, ext) == <<"converted", job_id, ext>>

\* A response: the operation, the job it names, the HTTP status ("ok": 200),
\* the job status it reports, and the counts retry-uploaded (retried, failed)
\* and cleanup (cleaned_jobs, in n1) report.
Response(op, job_id, code, status, n1, n2) ==
    [op |-> op, job_id |-> job_id, code |-> code, status |-> status,
     n1 |-> n1, n2 |-> n2]
NoResponse == Response(NONE, 0, NONE, NONE, 0, 0)
Silent == resp' = NoResponse

NoCall ==
    [ops |-> 0, op |-> NONE, queue |-> NONE, before |-> [q \in QueueName |-> {}],
     result |-> FALSE, message |-> NoMsg, messages |-> <<>>]

IdleUpload ==
    [pc |-> "idle", conv_type |-> NONE, queue_name |-> NONE, filename |-> NONE,
     loaded |-> NONE]
IdleCancel ==
    [pc |-> "idle", job_id |-> 0, loaded |-> NONE, conv_type |-> NONE]
IdleRetry ==
    [pc |-> "idle", todo |-> {}, marked |-> {}, rows |-> [j \in JobIds |-> NoRow],
     retried |-> 0, failed |-> 0]
IdleCleanup ==
    [pc |-> "idle", todo |-> {}, deleted |-> {}, errors |-> {},
     rows |-> [j \in JobIds |-> NoRow], cleaned |-> 0]
IdleWorker ==
    [pc |-> "dequeue", message |-> NoMsg, success |-> FALSE, out |-> <<>>, err |-> NONE,
     cause |-> NONE, killed |-> FALSE, must_cancel |-> FALSE, proc |-> NONE,
     dequeue_error |-> FALSE]

Init ==
    /\ jobs = [j \in JobIds |-> NoRow]
    /\ objects = {}
    /\ queues = [q \in QueueName |-> {}]
    /\ now = 0
    /\ ticks = 0
    /\ up = [j \in JobIds |-> IdleUpload]
    /\ cn = IdleCancel
    /\ rt = IdleRetry
    /\ cl = IdleCleanup
    /\ served = 0
    /\ resp = NoResponse
    /\ wk = [w \in Workers |-> IdleWorker]
    /\ proto = [j \in JobIds |-> <<>>]
    /\ enqCount = [k \in MsgKeys |-> 0]
    /\ deqCount = [k \in MsgKeys |-> 0]
    /\ qlog = NoCall
    /\ pool = [p \in Pools |-> RunningPool(p)]

\* ------------------------------------- Job Manager: upload_file (main.py)
\* The requests tried: (explicit conversion_type or NONE, filename extension
\* or NONE for no filename, size within MAX_FILE_SIZE).
UploadRequests ==
    {<<NONE, "docx", TRUE>>, <<NONE, "pdf", TRUE>>, <<NONE, "jpg", TRUE>>,
     <<NONE, "png", TRUE>>, <<"pdf_to_jpg", "pdf", TRUE>>,
     <<"pdf_to_png", "pdf", TRUE>>, <<"bogus", "docx", TRUE>>,
     <<NONE, "txt", TRUE>>, <<NONE, NONE, TRUE>>, <<NONE, "docx", FALSE>>}


\* conversion_map of upload_file.
conversion_map(t) ==
    CASE t = "docx_to_pdf" -> "queue:docx_pdf"
      [] t = "pdf_to_docx" -> "queue:pdf_docx"
      [] t = "pdf_to_jpg" -> "queue:pdf_image"
      [] t = "pdf_to_png" -> "queue:pdf_image"
      [] t = "jpg_to_pdf" -> "queue:image_pdf"
      [] t = "png_to_pdf" -> "queue:image_pdf"
      [] OTHER -> NONE

\* Lines 166-180: the explicit type if it is a key of conversion_map, else by
\* the extension; NONE for an unsupported file.
ResolveConversion(explicit, ext) ==
    IF explicit \in ConversionType THEN explicit
    ELSE CASE ext = "docx" -> "docx_to_pdf"
           [] ext = "pdf" -> "pdf_to_docx"
           [] ext \in {"jpg", "jpeg"} -> "jpg_to_pdf"
           [] ext = "png" -> "png_to_pdf"
           [] OTHER -> NONE

UploadDone(j, code) ==
    /\ up' = [up EXCEPT ![j].pc = "done"]
    /\ resp' = Response("upload", j, code, IF code = "ok" THEN up[j].loaded ELSE NONE, 0, 0)

\* Lines 146-192: validation; a job id is drawn only for an accepted file.
UploadBegin(j) ==
    /\ up[j].pc = "idle"
    /\ Cardinality({i \in JobIds : up[i].pc # "idle"}) < MaxUploads
    /\ \E req \in UploadRequests :
         LET conv == ResolveConversion(req[1], req[2])
         IN  IF req[2] = NONE \/ conv = NONE THEN UploadDone(j, "400")
             ELSE IF ~req[3] THEN UploadDone(j, "413")
             ELSE /\ up' = [up EXCEPT ![j].pc = "store", ![j].conv_type = conv,
                                      ![j].queue_name = conversion_map(conv),
                                      ![j].filename = req[2]]
                  /\ Silent
    /\ UNCHANGED <<storeVars, clockVars, admVars, wk, histVars, qlog, pool>>

\* STEP 1 without the check of lines 205-206: the request goes on although
\* the object was not stored.
UploadStoreUnchecked(j) ==
    /\ up[j].pc = "store"
    /\ \E storage_ok \in BOOLEAN :
         /\ up' = [up EXCEPT ![j].pc = "insert"]
         /\ Silent
         /\ IF storage_ok
            THEN /\ objects' = objects \cup {UploadPath(j, up[j].filename)}
                 /\ proto' = [proto EXCEPT ![j] = Append(@, "store")]
            ELSE UNCHANGED <<objects, proto>>
    /\ UNCHANGED <<jobs, queues, clockVars, admVars, wk, enqCount, deqCount, qlog, pool>>

\* Lines 194-206, STEP 1: storage.upload_data; a failure ends the request.
UploadStore(j) ==
    /\ up[j].pc = "store"
    /\ \E storage_ok \in BOOLEAN :
         IF storage_ok
         THEN /\ objects' = objects \cup {UploadPath(j, up[j].filename)}
              /\ proto' = [proto EXCEPT ![j] = Append(@, "store")]
              /\ up' = [up EXCEPT ![j].pc = "insert"]
              /\ Silent
         ELSE /\ UploadDone(j, "500")
              /\ UNCHANGED <<objects, proto>>
    /\ UNCHANGED <<jobs, queues, clockVars, admVars, wk, enqCount, deqCount, qlog, pool>>

\* STEP 2 with a failed commit swallowed: the request goes on without a row,
\* and its later reads and writes of the row find nothing and pass.
UploadInsertSwallowed(j) ==
    /\ up[j].pc = "insert"
    /\ \E db_ok \in BOOLEAN :
         IF db_ok
         THEN /\ jobs' = [jobs EXCEPT ![j] =
                     Job(j, up[j].filename, up[j].conv_type,
                         UploadPath(j, up[j].filename), now)]
              /\ proto' = [proto EXCEPT ![j] = Append(@, "insert")]
              /\ up' = [up EXCEPT ![j].pc = "refresh"]
              /\ Silent
         ELSE /\ up' = [up EXCEPT ![j].pc = "done", ![j].loaded = "uploaded"]
              /\ resp' = Response("upload", j, "ok", "uploaded", 0, 0)
              /\ UNCHANGED <<jobs, proto>>
    /\ UNCHANGED <<objects, queues, clockVars, admVars, wk, enqCount, deqCount, qlog, pool>>

\* Lines 208-222, STEP 2: the row is added with status UPLOADED and committed.
UploadInsert(j) ==
    /\ up[j].pc = "insert"
    /\ \E db_ok \in BOOLEAN :
         IF db_ok
         THEN /\ jobs' = [jobs EXCEPT ![j] =
                     Job(j, up[j].filename, up[j].conv_type,
                         UploadPath(j, up[j].filename), now)]
              /\ proto' = [proto EXCEPT ![j] = Append(@, "insert")]
              /\ up' = [up EXCEPT ![j].pc = "refresh"]
              /\ Silent
         ELSE /\ UploadDone(j, "500")
              /\ UNCHANGED <<jobs, proto>>
    /\ UNCHANGED <<objects, queues, clockVars, admVars, wk, enqCount, deqCount, qlog, pool>>

\* Lines 227-237: commit() expired the instance, so reading job.client_ip for
\* the message loads the row again; the session now holds the status read here.
UploadRefresh(j) ==
    /\ up[j].pc = "refresh"
    /\ \E db_ok \in BOOLEAN :
         IF db_ok /\ jobs[j].status # NONE
         THEN /\ up' = [up EXCEPT ![j].pc = "enqueue", ![j].loaded = jobs[j].status]
              /\ Silent
         ELSE UploadDone(j, "500")
    /\ UNCHANGED <<storeVars, clockVars, admVars, wk, histVars, qlog, pool>>

UploadMessage(j) ==
    QueueMessage(j, up[j].conv_type, UploadPath(j, up[j].filename),
                 UPLOAD_PRIORITY, FALSE)

\* STEP 3 with a failed enqueue treated as fatal: the request answers 500.
UploadEnqueueFatal(j) ==
    /\ up[j].pc = "enqueue"
    /\ \E redis_ok \in BOOLEAN :
         LET r == enqueue(queues, up[j].queue_name, UploadMessage(j), redis_ok)
         IN  /\ queues' = r.queues
             /\ IF r.result
                THEN /\ up' = [up EXCEPT ![j].pc = "commit"]
                     /\ Silent
                     /\ proto' = [proto EXCEPT ![j] = Append(@, "enqueue")]
                     /\ enqCount' = [enqCount EXCEPT ![KeyOf(UploadMessage(j))] = @ + 1]
                ELSE /\ UploadDone(j, "500")
                     /\ UNCHANGED <<proto, enqCount>>
    /\ UNCHANGED <<jobs, objects, clockVars, admVars, wk, deqCount, qlog, pool>>

\* Lines 239-257, STEP 3: enqueue; on failure the request answers success with
\* the status the session holds.
UploadEnqueue(j) ==
    /\ up[j].pc = "enqueue"
    /\ \E redis_ok \in BOOLEAN :
         LET r == enqueue(queues, up[j].queue_name, UploadMessage(j), redis_ok)
         IN  /\ queues' = r.queues
             /\ IF r.result
                THEN /\ up' = [up EXCEPT ![j].pc = "commit"]
                     /\ Silent
                     /\ proto' = [proto EXCEPT ![j] = Append(@, "enqueue")]
                     /\ enqCount' = [enqCount EXCEPT ![KeyOf(UploadMessage(j))] = @ + 1]
                ELSE /\ UploadDone(j, "ok")
                     /\ UNCHANGED <<proto, enqCount>>
    /\ UNCHANGED <<jobs, objects, clockVars, admVars, wk, deqCount, qlog, pool>>

\* Lines 243-244: job.status = PENDING; db.commit().  The UPDATE names the
\* row by id only and is issued when PENDING differs from the status the
\* session holds; an UPDATE matching no row raises and the request answers 500.
UploadCommit(j) ==
    /\ up[j].pc = "commit"
    /\ \E db_ok \in BOOLEAN :
         IF up[j].loaded = "pending"
         THEN /\ up' = [up EXCEPT ![j].pc = "respond"]
              /\ Silent
              /\ UNCHANGED jobs
         ELSE IF db_ok /\ jobs[j].status # NONE
         THEN /\ jobs' = [jobs EXCEPT ![j].status = "pending"]
              /\ up' = [up EXCEPT ![j].pc = "respond", ![j].loaded = "pending"]
              /\ Silent
         ELSE /\ UploadDone(j, "500")
              /\ UNCHANGED jobs
    /\ UNCHANGED <<objects, queues, clockVars, admVars, wk, histVars, qlog, pool>>

\* Lines 251-257: the response reads job.status, which the second commit()
\* expired: the row is loaded once more and its current status is answered.
UploadRespond(j) ==
    /\ up[j].pc = "respond"
    /\ \E db_ok \in BOOLEAN :
         IF db_ok /\ jobs[j].status # NONE
         THEN /\ up' = [up EXCEPT ![j].pc = "done", ![j].loaded = jobs[j].status]
              /\ resp' = Response("upload", j, "ok", jobs[j].status, 0, 0)
         ELSE UploadDone(j, "500")
    /\ UNCHANGED <<storeVars, clockVars, admVars, wk, histVars, qlog, pool>>

upload_file(j) ==
    \/ UploadBegin(j)
    \/ UploadStore(j)
    \/ UploadInsert(j)
    \/ UploadRefresh(j)
    \/ UploadEnqueue(j)
    \/ UploadCommit(j)
    \/ UploadRespond(j)

\* -------------------------------------- Job Manager: cancel_job (main.py)
CancelDone(code) ==
    /\ resp' = Response("cancel", cn.job_id, code, NONE, 0, 0)
    /\ cn' = IdleCancel

\* A status list that forgets FAILED.
UncancellableWithoutFailed == {"completed", "cancelled"}

\* Line 461: the statuses cancel_job refuses.
Uncancellable == {"completed", "failed", "cancelled"}

\* Lines 456-465: the row is read; a missing row answers 404 and a row that is
\* COMPLETED, FAILED or CANCELLED answers 400.
CancelRead(j) ==
    /\ cn.pc = "idle"
    /\ served < MaxAdminOps
    /\ served' = served + 1
    /\ \E db_ok \in BOOLEAN :
         IF ~db_ok
         THEN /\ resp' = Response("cancel", j, "500", NONE, 0, 0)
              /\ UNCHANGED cn
         ELSE IF jobs[j].status = NONE
         THEN /\ resp' = Response("cancel", j, "404", NONE, 0, 0)
              /\ UNCHANGED cn
         ELSE IF jobs[j].status \in Uncancellable
         THEN /\ resp' = Response("cancel", j, "400", NONE, 0, 0)
              /\ UNCHANGED cn
         ELSE /\ cn' = [pc |-> IF jobs[j].status = "pending" THEN "remove" ELSE "commit",
                        job_id |-> j, loaded |-> jobs[j].status,
                        conv_type |-> jobs[j].conversion_type]
              /\ Silent
    /\ UNCHANGED <<storeVars, clockVars, up, rt, cl, wk, histVars, qlog, pool>>

\* Lines 470-477: the queue cancel_job removes from.  The third comparison
\* reads ConversionType.MP4_TO_MP3, which the enum does not define: for every
\* type but the first two the attribute lookup raises (NONE here).
CancelQueue(conv_type) ==
    CASE conv_type = "docx_to_pdf" -> "queue:docx_pdf"
      [] conv_type = "pdf_to_docx" -> "queue:pdf_docx"
      [] OTHER -> NONE

\* Lines 467-479: a PENDING job is removed from its queue; the exception of
\* CancelQueue ends the request with 500 (line 496).
CancelRemove ==
    /\ cn.pc = "remove"
    /\ IF CancelQueue(cn.conv_type) = NONE
       THEN /\ CancelDone("500")
            /\ UNCHANGED queues
       ELSE \E redis_ok \in BOOLEAN :
              /\ queues' = remove_job(queues, CancelQueue(cn.conv_type),
                                      cn.job_id, redis_ok).queues
              /\ cn' = [cn EXCEPT !.pc = "commit"]
              /\ Silent
    /\ UNCHANGED <<jobs, objects, clockVars, up, rt, cl, served, wk, histVars, qlog, pool>>

\* Lines 481-492: status CANCELLED and completed_at are written by id.
CancelCommit ==
    /\ cn.pc = "commit"
    /\ \E db_ok \in BOOLEAN :
         IF db_ok /\ jobs[cn.job_id].status # NONE
         THEN /\ jobs' = [jobs EXCEPT ![cn.job_id].status = "cancelled",
                                      ![cn.job_id].completed_at = now]
              /\ CancelDone("ok")
         ELSE /\ CancelDone("500")
              /\ UNCHANGED jobs
    /\ UNCHANGED <<objects, queues, clockVars, up, rt, cl, served, wk, histVars, qlog, pool>>

cancel_job ==
    \/ \E j \in JobIds : CancelRead(j)
    \/ CancelRemove
    \/ CancelCommit

\* ----------------------------- Job Manager: retry_uploaded_jobs (main.py)
\* queue_map of retry_uploaded_jobs.
queue_map(t) ==
    CASE t = "docx_to_pdf" -> "queue:docx_pdf"
      [] t = "pdf_to_docx" -> "queue:pdf_docx"
      [] t = "pdf_to_jpg" -> "queue:pdf_image"
      [] t = "pdf_to_png" -> "queue:pdf_image"
      [] t = "jpg_to_pdf" -> "queue:image_pdf"
      [] t = "png_to_pdf" -> "queue:image_pdf"
      [] OTHER -> NONE

RetryDone(code) ==
    /\ resp' = Response("retry", 0, code, NONE, rt.retried, rt.failed)
    /\ rt' = IdleRetry

\* Lines 524-531: all rows with status UPLOADED are loaded.
RetryScan ==
    /\ rt.pc = "idle"
    /\ served < MaxAdminOps
    /\ served' = served + 1
    /\ \E db_ok \in BOOLEAN :
         LET uploaded_jobs == {j \in JobIds : jobs[j].status = "uploaded"}
         IN  IF ~db_ok THEN RetryDone("500")
             ELSE IF uploaded_jobs = {} THEN RetryDone("ok")
             ELSE /\ rt' = [rt EXCEPT !.pc = "loop", !.todo = uploaded_jobs,
                                      !.rows = [j \in JobIds |->
                                         IF j \in uploaded_jobs THEN jobs[j] ELSE NoRow]]
                  /\ Silent
    /\ UNCHANGED <<storeVars, clockVars, up, cn, cl, wk, histVars, qlog, pool>>

\* The message of lines 554-565, built from the row as loaded by the scan.
RetryMessage(row, j) ==
    QueueMessage(j, row.conversion_type, row.file_path, UPLOAD_PRIORITY, TRUE)

\* One turn of the loop without line 568: a successful enqueue is counted but
\* the row is not marked PENDING.
RetryEnqueueUnmarked(j) ==
    /\ rt.pc = "loop"
    /\ j \in rt.todo
    /\ \E redis_ok \in BOOLEAN :
         LET msg == RetryMessage(rt.rows[j], j)
             r1 == enqueue(queues, queue_map(rt.rows[j].conversion_type), msg, redis_ok)
         IN  /\ queues' = r1.queues
             /\ IF r1.result
                THEN /\ rt' = [rt EXCEPT !.todo = @ \ {j}, !.retried = @ + 1]
                     /\ enqCount' = [enqCount EXCEPT ![KeyOf(msg)] = @ + 1]
                ELSE /\ rt' = [rt EXCEPT !.todo = @ \ {j}, !.failed = @ + 1]
                     /\ UNCHANGED enqCount
    /\ Silent
    /\ UNCHANGED <<jobs, objects, clockVars, up, cn, cl, served, wk,
                   proto, deqCount, qlog, pool>>

\* Lines 546-577, one turn of the loop: enqueue; on success the loaded row is
\* marked PENDING in the session, else the failure is counted.
RetryEnqueue(j) ==
    /\ rt.pc = "loop"
    /\ j \in rt.todo
    /\ \E redis_ok \in BOOLEAN :
         LET msg == RetryMessage(rt.rows[j], j)
             r1 == enqueue(queues, queue_map(rt.rows[j].conversion_type), msg, redis_ok)
         IN  /\ queues' = r1.queues
             /\ IF r1.result
                THEN /\ rt' = [rt EXCEPT !.todo = @ \ {j}, !.marked = @ \cup {j},
                                         !.retried = @ + 1]
                     /\ enqCount' = [enqCount EXCEPT ![KeyOf(msg)] = @ + 1]
                ELSE /\ rt' = [rt EXCEPT !.todo = @ \ {j}, !.failed = @ + 1]
                     /\ UNCHANGED enqCount
    /\ Silent
    /\ UNCHANGED <<jobs, objects, clockVars, up, cn, cl, served, wk,
                   proto, deqCount, qlog, pool>>

\* Lines 579-586: one commit writes PENDING to every marked row, by id; if one
\* of them no longer exists the UPDATE raises and the transaction is rolled back.
RetryCommit ==
    /\ rt.pc = "loop"
    /\ rt.todo = {}
    /\ \E db_ok \in BOOLEAN :
         IF db_ok /\ \A j \in rt.marked : jobs[j].status # NONE
         THEN /\ jobs' = [j \in JobIds |->
                            IF j \in rt.marked
                            THEN [jobs[j] EXCEPT !.status = "pending"] ELSE jobs[j]]
              /\ RetryDone("ok")
         ELSE /\ rt.marked # {}
              /\ RetryDone("500")
              /\ UNCHANGED jobs
    /\ UNCHANGED <<objects, queues, clockVars, up, cn, cl, served, wk, histVars, qlog, pool>>

retry_uploaded_jobs ==
    \/ RetryScan
    \/ \E j \in JobIds : RetryEnqueue(j)
    \/ RetryCommit

\* ---------------------------- Job Manager: cleanup_expired_jobs (main.py)
\* A filter with one cutoff: FAILED rows are held to the 24 h threshold too.
ExpiredOneCutoff(row, t) ==
    /\ row.created_at < t - JOB_EXPIRY_HOURS
    /\ row.status \in {"completed", "cancelled", "failed"}

\* The filter of lines 604-609 at the time t.
Expired(row, t) ==
    \/ /\ row.created_at < t - JOB_EXPIRY_HOURS
       /\ row.status \in {"completed", "cancelled"}
    \/ /\ row.created_at < t - FAILED_JOB_EXPIRY_HOURS
       /\ row.status = "failed"

CleanupDone(code) ==
    /\ resp' = Response("cleanup", 0, code, NONE, cl.cleaned, 0)
    /\ cl' = IdleCleanup

CleanupScan ==
    /\ cl.pc = "idle"
    /\ served < MaxAdminOps
    /\ served' = served + 1
    /\ \E db_ok \in BOOLEAN :
         LET expired_jobs == {j \in JobIds : jobs[j].status # NONE /\ Expired(jobs[j], now)}
         IN  IF ~db_ok THEN CleanupDone("500")
             ELSE /\ cl' = [cl EXCEPT !.pc = "loop", !.todo = expired_jobs,
                                      !.rows = [j \in JobIds |->
                                         IF j \in expired_jobs THEN jobs[j] ELSE NoRow]]
                  /\ Silent
    /\ UNCHANGED <<storeVars, clockVars, up, cn, rt, wk, histVars, qlog, pool>>

\* storage.delete_object: "ok" removes the object, "s3error" is caught inside
\* and answers False, "raise" is any other exception of the client.
DeleteOutcomes == {"ok", "s3error", "raise"}
delete_object(objs, object_name, outcome) ==
    IF outcome = "ok" THEN objs \ {object_name} ELSE objs

\* One turn of the loop with the try of lines 612-625 around the whole loop:
\* an exception raised by a deletion is logged and ends the loop.
CleanupJobAborting(j) ==
    /\ cl.pc = "loop"
    /\ j \in cl.todo
    /\ \E o1 \in DeleteOutcomes, o2 \in DeleteOutcomes :
         LET row == cl.rows[j]
             has_out == row.output_path # <<>>
             after1 == delete_object(objects, row.file_path, o1)
             after2 == IF has_out THEN delete_object(after1, row.output_path, o2)
                       ELSE after1
         IN  /\ ~has_out => o2 = "ok"
             /\ o1 = "raise" => o2 = "ok"
             /\ IF o1 = "raise"
                THEN /\ UNCHANGED objects
                     /\ cl' = [cl EXCEPT !.todo = {}, !.errors = @ \cup {j}]
                ELSE IF has_out /\ o2 = "raise"
                THEN /\ objects' = after1
                     /\ cl' = [cl EXCEPT !.todo = {}, !.errors = @ \cup {j}]
                ELSE /\ objects' = after2
                     /\ cl' = [cl EXCEPT !.todo = @ \ {j}, !.deleted = @ \cup {j},
                                         !.cleaned = @ + 1]
    /\ Silent
    /\ UNCHANGED <<jobs, queues, clockVars, up, cn, rt, served, wk, histVars, qlog, pool>>

\* Lines 612-625, one turn of the loop for the row of job j: the input and the
\* output object are deleted and the row is marked for deletion; an exception
\* is logged (errors) and leaves the row unmarked.
CleanupJob(j) ==
    /\ cl.pc = "loop"
    /\ j \in cl.todo
    /\ \E o1 \in DeleteOutcomes, o2 \in DeleteOutcomes :
         LET row == cl.rows[j]
             has_out == row.output_path # <<>>
             after1 == delete_object(objects, row.file_path, o1)
             after2 == IF has_out THEN delete_object(after1, row.output_path, o2)
                       ELSE after1
         IN  /\ ~has_out => o2 = "ok"
             /\ o1 = "raise" => o2 = "ok"
             /\ IF o1 = "raise"
                THEN /\ UNCHANGED objects
                     /\ cl' = [cl EXCEPT !.todo = @ \ {j}, !.errors = @ \cup {j}]
                ELSE IF has_out /\ o2 = "raise"
                THEN /\ objects' = after1
                     /\ cl' = [cl EXCEPT !.todo = @ \ {j}, !.errors = @ \cup {j}]
                ELSE /\ objects' = after2
                     /\ cl' = [cl EXCEPT !.todo = @ \ {j}, !.deleted = @ \cup {j},
                                         !.cleaned = @ + 1]
    /\ Silent
    /\ UNCHANGED <<jobs, queues, clockVars, up, cn, rt, served, wk, histVars, qlog, pool>>

\* Lines 627-636: the commit deletes the marked rows.
CleanupCommit ==
    /\ cl.pc = "loop"
    /\ cl.todo = {}
    /\ \E db_ok \in BOOLEAN :
         IF db_ok
         THEN /\ jobs' = [j \in JobIds |-> IF j \in cl.deleted THEN NoRow ELSE jobs[j]]
              /\ CleanupDone("ok")
         ELSE /\ CleanupDone("500")
              /\ UNCHANGED jobs
    /\ UNCHANGED <<objects, queues, clockVars, up, cn, rt, served, wk, histVars, qlog, pool>>

cleanup_expired_jobs ==
    \/ CleanupScan
    \/ \E j \in JobIds : CleanupJob(j)
    \/ CleanupCommit

\* ------------------------------------- worker pools (conversion_worker.py)
\* An _update_status whose keyword fields are dropped (hasattr never true):
\* only the status is written.
_update_status_only(js, job_id, status, kwargs, db_ok) ==
    IF ~db_ok \/ js[job_id].status = NONE THEN js
    ELSE [js EXCEPT ![job_id].status = status]

\* An update that writes the whole row anew: the fields it is not given are
\* reset, file_path among them.
_update_status_resetting(js, job_id, status, kwargs, db_ok) ==
    IF ~db_ok \/ js[job_id].status = NONE THEN js
    ELSE [js EXCEPT ![job_id] =
            [f \in DOMAIN js[job_id] |->
                IF f = "status" THEN status
                ELSE IF f \in DOMAIN kwargs THEN kwargs[f]
                ELSE IF f = "file_path" THEN <<>>
                ELSE js[job_id][f]]]

\* An update whose failure leaves the status written without the keyword
\* fields.
_update_status_torn(js, job_id, status, kwargs, db_ok) ==
    IF js[job_id].status = NONE THEN js
    ELSE IF ~db_ok THEN [js EXCEPT ![job_id].status = status]
    ELSE [js EXCEPT ![job_id] =
            [f \in DOMAIN js[job_id] |->
                IF f = "status" THEN status
                ELSE IF f \in DOMAIN kwargs THEN kwargs[f]
                ELSE js[job_id][f]]]

\* ConversionWorker._update_status: the row is read by id; if it exists its
\* status and the keyword fields are written, whatever the status was.  A
\* failure of the session is logged and swallowed.  The rows here carry no
\* worker_id, started_at and assigned_service: writes to them leave no trace.
_update_status(js, job_id, status, kwargs, db_ok) ==
    IF ~db_ok \/ js[job_id].status = NONE THEN js
    ELSE [js EXCEPT ![job_id] =
            [f \in DOMAIN js[job_id] |->
                IF f = "status" THEN status
                ELSE IF f \in DOMAIN kwargs THEN kwargs[f]
                ELSE js[job_id][f]]]

\* What ends a conversion: success or one of the failure causes.
Causes == {"success", "download", "timeout", "tool", "no_output", "upload"}

\* The causes the worker loops are run with; a download also fails whenever
\* the input object is not in the Object Store.
TriedCauses == Causes

\* The error text each conversion function returns for a failure cause:
\* _docx_to_pdf (docx-pdf-service, lines 92-138), _pdf_to_docx (pdf-docx-service,
\* lines 85-107), _pdf_to_image and _image_to_pdf (image-service, lines 95-160).
\* Outside _docx_to_pdf a timeout is the TimeoutError of asyncio.wait_for,
\* caught by "except Exception" and returned as str(e), the empty string.
ErrorText(queue_name, conv_type, cause) ==
    IF queue_name = "queue:docx_pdf"
    THEN CASE cause = "download" -> "Failed to download input file"
           [] cause = "timeout" -> "Conversion timeout"
           [] cause = "tool" -> "LibreOffice conversion failed"
           [] cause = "no_output" -> "Output PDF not found"
           [] cause = "upload" -> "Failed to upload output file"
           [] OTHER -> "Unknown type"
    ELSE IF queue_name = "queue:pdf_docx"
    THEN CASE cause = "download" -> "Failed to download"
           [] cause = "timeout" -> ""
           [] cause = "tool" -> "str(e)"
           [] cause \in {"no_output", "upload"} -> "Conversion failed"
           [] OTHER -> "Unknown type"
    ELSE IF conv_type \in {"pdf_to_jpg", "pdf_to_png"}
    THEN CASE cause = "download" -> "Failed to download"
           [] cause = "timeout" -> ""
           [] cause \in {"tool", "no_output"} -> "str(e)"
           [] cause = "upload" -> "Upload failed"
           [] OTHER -> "Unknown type"
    ELSE IF conv_type \in {"jpg_to_pdf", "png_to_pdf"}
    THEN CASE cause = "download" -> "Failed to download"
           [] cause = "timeout" -> ""
           [] cause = "tool" -> "str(e)"
           [] cause \in {"no_output", "upload"} -> "Conversion failed"
           [] OTHER -> "Unknown type"
    ELSE "Unknown type"

\* The extensions of the output object a successful conversion may store.
OutputExts(queue_name, conv_type) ==
    IF queue_name = "queue:docx_pdf" THEN {"pdf"}
    ELSE IF queue_name = "queue:pdf_docx" THEN {"docx"}
    ELSE IF conv_type = "pdf_to_jpg" THEN {"jpg", "zip"}
    ELSE IF conv_type = "pdf_to_png" THEN {"png", "zip"}
    ELSE IF conv_type \in {"jpg_to_pdf", "png_to_pdf"} THEN {"pdf"}
    ELSE {}

QueueOf(w) == w[1]

\* _worker_loop lines 52-57: a message popped from the loop's queue.  The
\* loops of one queue run the same code and leave no trace of their identity,
\* so of the idle ones the loop with the lowest index is taken to pop.
WorkerDequeue(w) ==
    /\ wk[w].pc = "dequeue"
    /\ \A i \in 0..(w[2] - 1) : wk[<<w[1], i>>].pc # "dequeue"
    /\ LET r == dequeue(queues, QueueOf(w), TRUE)
       IN  /\ r.message # NoMsg
           /\ queues' = r.queues
           /\ wk' = [wk EXCEPT ![w].pc = "claim", ![w].message = r.message,
                               ![w].dequeue_error = FALSE]
           /\ deqCount' = [deqCount EXCEPT ![KeyOf(r.message)] = @ + 1]
    /\ Silent
    /\ UNCHANGED <<jobs, objects, clockVars, reqVars, proto, enqCount, qlog, pool>>

\* _process_job lines 67-68: the task resumes with the message; the job id is
\* added to active_jobs and the row is marked PROCESSING with the worker's id.
WorkerClaim(w) ==
    /\ wk[w].pc = "claim"
    /\ ~wk[w].must_cancel
    /\ \E db_ok \in BOOLEAN :
         jobs' = _update_status(jobs, wk[w].message.job_id, "processing",
                                [worker_id |-> w, started_at |-> now], db_ok)
    /\ wk' = [wk EXCEPT ![w].pc = "convert"]
    /\ pool' = [pool EXCEPT ![PoolOf(w)].active_jobs = @ \cup {wk[w].message.job_id}]
    /\ Silent
    /\ UNCHANGED <<objects, queues, clockVars, reqVars, histVars, qlog>>

\* What a conversion function does to the work it started when the timeout
\* expires: _docx_to_pdf kills the LibreOffice process (line 114); the other
\* functions wait on run_in_executor, whose thread asyncio.wait_for cannot
\* stop: the conversion runs on.
KillsOnTimeout(queue_name) == queue_name = "queue:docx_pdf"

\* _process_job line 70: the conversion function of the pool.  It succeeds
\* only if the input object could be downloaded, and then stores the output.
\* cause records what ended the conversion and killed whether the work that
\* timed out was terminated.
WorkerConvert(w) ==
    /\ wk[w].pc = "convert"
    /\ ~wk[w].must_cancel
    /\ LET msg == wk[w].message
           exts == OutputExts(QueueOf(w), msg.conversion_type)
       IN  \E tried \in TriedCauses :
             LET cause == IF exts = {} THEN "unknown_type"
                          ELSE IF msg.file_path \in objects THEN tried ELSE "download"
             IN  IF cause = "success"
                 THEN \E ext \in exts :
                       /\ objects' = objects \cup {ConvertedPath(msg.job_id, ext)}
                       /\ wk' = [wk EXCEPT ![w].pc = "finish", ![w].success = TRUE,
                                           ![w].out = ConvertedPath(msg.job_id, ext),
                                           ![w].cause = cause]
                 ELSE /\ wk' = [wk EXCEPT ![w].pc = "finish", ![w].success = FALSE,
                                  ![w].err = ErrorText(QueueOf(w), msg.conversion_type, cause),
                                  ![w].cause = cause,
                                  ![w].killed = cause = "timeout" /\ KillsOnTimeout(QueueOf(w))]
                      /\ UNCHANGED objects
    /\ Silent
    /\ UNCHANGED <<jobs, queues, clockVars, reqVars, histVars, qlog, pool>>

\* _process_job lines 72-81: COMPLETED with output_path, or FAILED with
\* error_message, and completed_at; the job id is discarded from active_jobs
\* (finally) and the loop dequeues again, or ends if is_running is false
\* (_worker_loop line 52).
WorkerFinish(w) ==
    /\ wk[w].pc = "finish"
    /\ \E db_ok \in BOOLEAN :
         jobs' = IF wk[w].success
                 THEN _update_status(jobs, wk[w].message.job_id, "completed",
                          [output_path |-> wk[w].out, completed_at |-> now], db_ok)
                 ELSE _update_status(jobs, wk[w].message.job_id, "failed",
                          [error_message |-> wk[w].err, completed_at |-> now], db_ok)
    /\ wk' = [wk EXCEPT ![w] = [IdleWorker EXCEPT
                   !.pc = IF pool[PoolOf(w)].is_running THEN "dequeue" ELSE "ended"]]
    /\ pool' = [pool EXCEPT ![PoolOf(w)].active_jobs = @ \ {wk[w].message.job_id}]
    /\ Silent
    /\ UNCHANGED <<objects, queues, clockVars, reqVars, histVars, qlog>>

_worker_loop(w) ==
    \/ WorkerDequeue(w)
    \/ WorkerClaim(w)
    \/ WorkerConvert(w)
    \/ WorkerFinish(w)

\* ------------------------------------------------------------- the clock
\* Requests and conversions last seconds (the conversion timeout is 60 s) and
\* the clock advances in steps of hours: it moves only between them.
Quiescent ==
    /\ \A j \in JobIds : up[j].pc \in {"idle", "done"}
    /\ cn.pc = "idle"
    /\ rt.pc = "idle"
    /\ cl.pc = "idle"
    /\ \A w \in Workers : wk[w].pc = "dequeue"

Tick ==
    /\ ticks < MaxTicks
    /\ Quiescent
    /\ now' = now + TickHours
    /\ ticks' = ticks + 1
    /\ Silent
    /\ UNCHANGED <<storeVars, reqVars, wk, histVars, qlog, pool>>

Next ==
    \/ \E j \in JobIds : upload_file(j)
    \/ cancel_job
    \/ retry_uploaded_jobs
    \/ cleanup_expired_jobs
    \/ \E w \in Workers : _worker_loop(w)
    \/ Tick

Spec == Init /\ [][Next]_vars

\* ------------------------------------------- the queue called on its own
\* Messages and queues the calls are made with.
Priorities == {1, 5, 9}
QueueCallMessages ==
    {QueueMessage(j, "docx_to_pdf", UploadPath(j, "docx"), p, FALSE) :
        j \in JobIds, p \in Priorities}
    \cup {QueueMessage(1, "docx_to_pdf", UploadPath(1, "docx"), 1, TRUE)}
QueueCallNames == {"queue:docx_pdf", "queue:pdf_docx"}

Called(op, q, result, message, messages) ==
    qlog' = [ops |-> qlog.ops + 1, op |-> op, queue |-> q, before |-> queues,
             result |-> result, message |-> message, messages |-> messages]

QEnqueue(q, m) ==
    /\ qlog.ops < MaxQueueOps
    /\ LET r == enqueue(queues, q, m, TRUE)
       IN  /\ queues' = r.queues
           /\ Called("enqueue", q, r.result, m, <<>>)
    /\ UNCHANGED <<jobs, objects, clockVars, reqVars, resp, wk, histVars, pool>>

QDequeue(q) ==
    /\ qlog.ops < MaxQueueOps
    /\ LET r == dequeue(queues, q, TRUE)
       IN  /\ queues' = r.queues
           /\ Called("dequeue", q, r.message # NoMsg, r.message, <<>>)
    /\ UNCHANGED <<jobs, objects, clockVars, reqVars, resp, wk, histVars, pool>>

QPeek(q, count) ==
    /\ qlog.ops < MaxQueueOps
    /\ Called("peek", q, TRUE, NoMsg, peek(queues, q, count))
    /\ UNCHANGED <<storeVars, clockVars, reqVars, resp, wk, histVars, pool>>

QRemove(q, j) ==
    /\ qlog.ops < MaxQueueOps
    /\ LET r == remove_job(queues, q, j, TRUE)
       IN  /\ queues' = r.queues
           /\ Called("remove_job", q, r.result, QueueMessage(j, NONE, <<>>, 0, FALSE), <<>>)
    /\ UNCHANGED <<jobs, objects, clockVars, reqVars, resp, wk, histVars, pool>>

NextQueue ==
    \/ \E q \in QueueCallNames, m \in QueueCallMessages : QEnqueue(q, m)
    \/ \E q \in QueueCallNames : QDequeue(q)
    \/ \E q \in QueueCallNames, count \in 1..2 : QPeek(q, count)
    \/ \E q \in QueueCallNames, j \in JobIds : QRemove(q, j)

SpecQueue == Init /\ [][NextQueue]_vars

\* ------------------------------------ the life of a pool (start and stop)
\* The number of loops start() creates for each queue of the pool
\* (worker_count); the loops of a queue are taken from the unused ones.
StartCount == 1
UnusedTasks(q) == {w \in Workers : w[1] = q /\ wk[w].pc = "off"}
FirstUnused(q) ==
    {w \in UnusedTasks(q) :
        Cardinality({v \in UnusedTasks(q) : v[2] < w[2]}) < StartCount}

\* start, lines 33-40: nothing if the pool is running; else is_running is set
\* and worker_count loops per queue are created and appended to worker_tasks.
start(p) ==
    /\ pool[p].driven
    /\ \A q \in PoolQueues(p) : Cardinality(UnusedTasks(q)) >= StartCount
    /\ IF pool[p].is_running
       THEN UNCHANGED <<wk, pool>>
       ELSE LET created == UNION {FirstUnused(q) : q \in PoolQueues(p)}
            IN  /\ wk' = [w \in Workers |->
                            IF w \in created THEN IdleWorker ELSE wk[w]]
                /\ pool' = [pool EXCEPT ![p].is_running = TRUE,
                                        ![p].worker_tasks = @ \cup created]
    /\ Silent
    /\ UNCHANGED <<storeVars, clockVars, reqVars, histVars, qlog>>

\* A loop is suspended in an await: the wait for the dequeue, or the
\* conversion once the input is downloaded (the download is a plain call:
\* _docx_to_pdf lines 92-112).
Suspended(w) ==
    \/ wk[w].pc \in {"dequeue", "claim"}
    \/ wk[w].pc = "convert" /\ wk[w].message.file_path \in objects

\* stop, lines 42-47: is_running is cleared and every task of worker_tasks
\* is cancelled; stop then waits for them in gather.  stop runs on the event
\* loop of the pool, so no loop is in the middle of a step it takes without
\* awaiting (its result is ready and its terminal write is under way).
stop(p) ==
    /\ pool[p].driven
    /\ ~pool[p].stopping
    /\ pool[p].is_running \/ pool[p].worker_tasks # {}
    /\ \A w \in PoolTasks(p) : wk[w].pc \in {"off", "ended"} \/ Suspended(w)
    /\ wk' = [w \in Workers |->
                IF w \in pool[p].worker_tasks /\ wk[w].pc \notin {"off", "ended"}
                THEN [wk[w] EXCEPT !.must_cancel = TRUE] ELSE wk[w]]
    /\ pool' = [pool EXCEPT ![p].is_running = FALSE,
                            ![p].stopping = pool[p].worker_tasks # {},
                            ![p].gathered = pool[p].worker_tasks]
    /\ Silent
    /\ UNCHANGED <<storeVars, clockVars, reqVars, histVars, qlog>>

\* stop, lines 47-48: gather returns when every task it was given has ended;
\* worker_tasks is cleared, whatever it holds by then.
stop_return(p) ==
    /\ pool[p].stopping
    /\ \A w \in pool[p].gathered : wk[w].pc = "ended"
    /\ pool' = [pool EXCEPT ![p].stopping = FALSE, ![p].gathered = {},
                            ![p].worker_tasks = {}]
    /\ Silent
    /\ UNCHANGED <<storeVars, clockVars, reqVars, wk, histVars, qlog>>

\* A cancelled task resumes with CancelledError at the await it is suspended
\* in: the wait for the dequeue (lines 55; also when the message has already
\* been popped and the task has not yet resumed), or the conversion (line 70).
\* "except Exception" does not catch it; inside _process_job the finally of
\* line 80 discards the job id, and the loop breaks (lines 58-59).  The
\* message the task held stays in its record, and a cancelled conversion is
\* recorded as its cause.  _docx_to_pdf has no handler for CancelledError
\* (lines 111-115 handle the timeout only): the LibreOffice process it spawned
\* (line 104) is left running.
SpawnsProcess(queue_name) == queue_name = "queue:docx_pdf"

TaskCancelledKeeping(w) ==
    /\ wk[w].must_cancel
    /\ wk[w].pc \in {"dequeue", "claim", "convert"}
    /\ wk' = [wk EXCEPT ![w].pc = "ended", ![w].must_cancel = FALSE,
                        ![w].cause = IF wk[w].pc = "convert" THEN "cancelled" ELSE @,
                        ![w].proc = IF wk[w].pc = "convert" /\ SpawnsProcess(QueueOf(w))
                                    THEN "alive" ELSE @]
    /\ Silent
    /\ UNCHANGED <<storeVars, clockVars, reqVars, histVars, qlog, pool>>

TaskCancelled(w) ==
    /\ wk[w].must_cancel
    /\ wk[w].pc \in {"dequeue", "claim", "convert"}
    /\ wk' = [wk EXCEPT ![w].pc = "ended", ![w].must_cancel = FALSE,
                        ![w].cause = IF wk[w].pc = "convert" THEN "cancelled" ELSE @,
                        ![w].proc = IF wk[w].pc = "convert" /\ SpawnsProcess(QueueOf(w))
                                    THEN "alive" ELSE @]
    /\ pool' = IF wk[w].pc = "convert"
               THEN [pool EXCEPT ![PoolOf(w)].active_jobs = @ \ {wk[w].message.job_id}]
               ELSE pool
    /\ Silent
    /\ UNCHANGED <<storeVars, clockVars, reqVars, histVars, qlog>>

\* The LibreOffice process a cancelled conversion left behind ends by itself.
SubprocessExit(w) ==
    /\ wk[w].proc = "alive"
    /\ wk' = [wk EXCEPT ![w].proc = "exited"]
    /\ Silent
    /\ UNCHANGED <<storeVars, clockVars, reqVars, histVars, qlog, pool>>

\* _worker_loop lines 52-56: the dequeue times out with no message and the
\* loop finds is_running false.
WorkerExit(w) ==
    /\ wk[w].pc = "dequeue"
    /\ ~wk[w].must_cancel
    /\ ~pool[PoolOf(w)].is_running
    /\ wk' = [wk EXCEPT ![w].pc = "ended"]
    /\ Silent
    /\ UNCHANGED <<storeVars, clockVars, reqVars, histVars, qlog, pool>>

\* A stopped pool of one service, with PENDING rows whose messages wait in
\* its queues: for each job its upload message, and for job 1 possibly the
\* message of a retry as well.
StoppedPool(p, driven) ==
    [is_running |-> FALSE, worker_tasks |-> {}, active_jobs |-> {},
     stopping |-> FALSE, gathered |-> {}, driven |-> driven]
PoolType(p) ==
    CASE p = "docx-pdf" -> "docx_to_pdf"
      [] p = "pdf-docx" -> "pdf_to_docx"
      [] OTHER -> "pdf_to_jpg"
PoolMessages(p) ==
    {QueueMessage(j, PoolType(p), UploadPath(j, "in"), UPLOAD_PRIORITY, FALSE) : j \in JobIds}
    \cup {QueueMessage(1, PoolType(p), UploadPath(1, "in"), UPLOAD_PRIORITY, TRUE)}

InitPool ==
    /\ \E p \in Pools : \E waiting \in SUBSET PoolMessages(p) :
         /\ waiting # {}
         /\ pool = [r \in Pools |-> StoppedPool(r, r = p)]
         /\ queues = [q \in QueueName |->
                         IF q = conversion_map(PoolType(p)) THEN waiting ELSE {}]
         /\ jobs = [j \in JobIds |->
                       IF \E m \in waiting : m.job_id = j
                       THEN [Job(j, "in", PoolType(p), UploadPath(j, "in"), 0)
                                EXCEPT !.status = "pending"]
                       ELSE NoRow]
         /\ objects = {m.file_path : m \in waiting}
         /\ enqCount = [k \in MsgKeys |->
                           IF \E m \in waiting : KeyOf(m) = k THEN 1 ELSE 0]
    /\ now = 0
    /\ ticks = 0
    /\ up = [j \in JobIds |-> IdleUpload]
    /\ cn = IdleCancel
    /\ rt = IdleRetry
    /\ cl = IdleCleanup
    /\ served = 0
    /\ resp = NoResponse
    /\ wk = [w \in Workers |-> [IdleWorker EXCEPT !.pc = "off"]]
    /\ proto = [j \in JobIds |-> <<>>]
    /\ deqCount = [k \in MsgKeys |-> 0]
    /\ qlog = NoCall

NextPool ==
    \/ \E p \in Pools : start(p)
    \/ \E p \in Pools : stop(p)
    \/ \E p \in Pools : stop_return(p)
    \/ \E w \in Workers : _worker_loop(w)
    \/ \E w \in Workers : TaskCancelled(w)
    \/ \E w \in Workers : WorkerExit(w)
    \/ \E w \in Workers : SubprocessExit(w)

SpecPool == InitPool /\ [][NextPool]_vars

\* ------------------------------- the loop when its dequeue brings nothing
\* RedisQueue.dequeue lines 96-98: an error of Redis is caught inside dequeue,
\* logged, and answered with None, as the timeout on an empty queue is.  The
\* loop (lines 55-57) finds no message and goes round to its next dequeue;
\* dequeue_error records that the last dequeue of the loop met the error.
WorkerDequeueError(w) ==
    /\ wk[w].pc = "dequeue"
    /\ pool[PoolOf(w)].driven
    /\ dequeue(queues, QueueOf(w), FALSE).message = NoMsg
    /\ wk' = [wk EXCEPT ![w].dequeue_error = TRUE]
    /\ Silent
    /\ UNCHANGED <<storeVars, clockVars, reqVars, histVars, qlog, pool>>

\* The dequeue times out on an empty queue (line 95): None, and the loop goes
\* round.
WorkerDequeueTimeout(w) ==
    /\ wk[w].pc = "dequeue"
    /\ pool[PoolOf(w)].driven
    /\ dequeue(queues, QueueOf(w), TRUE).message = NoMsg
    /\ wk' = [wk EXCEPT ![w].dequeue_error = FALSE]
    /\ Silent
    /\ UNCHANGED <<storeVars, clockVars, reqVars, histVars, qlog, pool>>

\* _worker_loop lines 60-62: an exception other than CancelledError reaches
\* the loop from the await of line 55 (run_in_executor itself raising; the
\* errors of dequeue and of _process_job are caught before they get here):
\* it is logged and the loop sleeps one second.
WorkerLoopRaises(w) ==
    /\ wk[w].pc = "dequeue"
    /\ pool[PoolOf(w)].driven
    /\ wk' = [wk EXCEPT ![w].pc = "sleep", ![w].dequeue_error = FALSE]
    /\ Silent
    /\ UNCHANGED <<storeVars, clockVars, reqVars, histVars, qlog, pool>>

\* The sleep of line 62 ends and the loop goes round.
WorkerWake(w) ==
    /\ wk[w].pc = "sleep"
    /\ wk' = [wk EXCEPT ![w].pc = "dequeue"]
    /\ Silent
    /\ UNCHANGED <<storeVars, clockVars, reqVars, histVars, qlog, pool>>

\* The running pools, one of them with PENDING rows whose messages wait in
\* its queue.
InitLoop ==
    /\ \E p \in Pools : \E waiting \in SUBSET PoolMessages(p) :
         /\ pool = [r \in Pools |-> [RunningPool(r) EXCEPT !.driven = (r = p)]]
         /\ queues = [q \in QueueName |->
                         IF q = conversion_map(PoolType(p)) THEN waiting ELSE {}]
         /\ jobs = [j \in JobIds |->
                       IF \E m \in waiting : m.job_id = j
                       THEN [Job(j, "in", PoolType(p), UploadPath(j, "in"), 0)
                                EXCEPT !.status = "pending"]
                       ELSE NoRow]
         /\ objects = {m.file_path : m \in waiting}
         /\ enqCount = [k \in MsgKeys |->
                           IF \E m \in waiting : KeyOf(m) = k THEN 1 ELSE 0]
    /\ now = 0
    /\ ticks = 0
    /\ up = [j \in JobIds |-> IdleUpload]
    /\ cn = IdleCancel
    /\ rt = IdleRetry
    /\ cl = IdleCleanup
    /\ served = 0
    /\ resp = NoResponse
    /\ wk = [w \in Workers |-> IdleWorker]
    /\ proto = [j \in JobIds |-> <<>>]
    /\ deqCount = [k \in MsgKeys |-> 0]
    /\ qlog = NoCall

NextLoop ==
    \/ \E w \in Workers : _worker_loop(w)
    \/ \E w \in Workers : WorkerDequeueError(w)
    \/ \E w \in Workers : WorkerDequeueTimeout(w)
    \/ \E w \in Workers : WorkerLoopRaises(w)
    \/ \E w \in Workers : WorkerWake(w)

SpecLoop == InitLoop /\ [][NextLoop]_vars

\* --------------------------- the administrative requests on a filled store
\* Rows of every status and of several ages (hours since created_at) are in
\* the Job Store when a retry-uploaded or a cleanup request is served; the
\* input object of each and the output of the completed ones are stored, and
\* the message of each PENDING row is queued.
AdminNow == 30
AdminAges == {2, 6, 10, 24, 30}
AdminRow(j, status, age) ==
    [Job(j, "docx", "docx_to_pdf", UploadPath(j, "docx"), AdminNow - age) EXCEPT
        !.status = status,
        !.output_path = IF status = "completed" THEN ConvertedPath(j, "pdf") ELSE <<>>,
        !.completed_at = IF status \in {"completed", "failed", "cancelled"}
                         THEN AdminNow - age ELSE -1,
        !.error_message = IF status = "failed" THEN "Conversion timeout" ELSE NONE]
AdminRows(j) ==
    {NoRow} \cup {AdminRow(j, status, age) : status \in JobStatus, age \in AdminAges}

InitAdmin ==
    /\ jobs \in {f \in [JobIds -> UNION {AdminRows(j) : j \in JobIds}] :
                    \A j \in JobIds : f[j] \in AdminRows(j)}
    /\ objects = {jobs[j].file_path : j \in {i \in JobIds : jobs[i].status # NONE}}
                   \cup {jobs[j].output_path :
                            j \in {i \in JobIds : jobs[i].status = "completed"}}
    /\ queues = [q \in QueueName |->
                    IF q = "queue:docx_pdf"
                    THEN {QueueMessage(j, "docx_to_pdf", UploadPath(j, "docx"),
                                       UPLOAD_PRIORITY, FALSE) :
                             j \in {i \in JobIds : jobs[i].status = "pending"}}
                    ELSE {}]
    /\ now = AdminNow
    /\ ticks = 0
    /\ up = [j \in JobIds |-> IdleUpload]
    /\ cn = IdleCancel
    /\ rt = IdleRetry
    /\ cl = IdleCleanup
    /\ served = 0
    /\ resp = NoResponse
    /\ wk = [w \in Workers |-> IdleWorker]
    /\ proto = [j \in JobIds |-> <<>>]
    /\ enqCount = [k \in MsgKeys |-> 0]
    /\ deqCount = [k \in MsgKeys |-> 0]
    /\ qlog = NoCall
    /\ pool = [p \in Pools |-> RunningPool(p)]

NextAdmin ==
    \/ retry_uploaded_jobs
    \/ cleanup_expired_jobs

SpecAdmin == InitAdmin /\ [][NextAdmin]_vars

\* =================================================================== claims
Terminal == {"completed", "failed", "cancelled"}
MessagesOf(j) == UNION {{m \in queues[q] : m.job_id = j} : q \in QueueName}
Exists(j) == jobs[j].status # NONE

\* The step that begins a cancel request for job j: it is rejected at once
\* (a cancel response naming j) or goes on holding the row it read.
CancelBegins(j) ==
    /\ cn.pc = "idle"
    /\ served' = served + 1
    /\ \/ resp'.op = "cancel" /\ resp'.job_id = j
       \/ cn'.pc # "idle" /\ cn'.job_id = j

CancelRejected(j) ==
    /\ resp'.op = "cancel" /\ resp'.job_id = j /\ resp'.code \in {"400", "500"}
    /\ cn'.pc = "idle"
    /\ jobs' = jobs
    /\ queues' = queues

\* C1: once a row's status is COMPLETED, FAILED or CANCELLED no later step
\* writes another status to it; the row may only be deleted.
C1_TerminalMonotone ==
    [][\A j \in JobIds :
         jobs[j].status \in Terminal => jobs'[j].status \in {jobs[j].status, NONE}]_vars

\* C2: for every row, output_path is non-empty exactly when the status is
\* COMPLETED.
C2_OutputIffCompleted ==
    \A j \in JobIds :
        Exists(j) => ((jobs[j].output_path # <<>>) <=> (jobs[j].status = "completed"))

\* C3: every change of the status of a row is one of the five edges
\* UPLOADED->PENDING, PENDING->PROCESSING, PENDING->CANCELLED,
\* PROCESSING->COMPLETED, PROCESSING->FAILED.
Edges ==
    {<<"uploaded", "pending">>, <<"pending", "processing">>, <<"pending", "cancelled">>,
     <<"processing", "completed">>, <<"processing", "failed">>}
C3_OnlyFiveEdges ==
    [][\A j \in JobIds :
         (Exists(j) /\ jobs'[j].status # NONE /\ jobs'[j].status # jobs[j].status)
            => <<jobs[j].status, jobs'[j].status>> \in Edges]_vars

\* C4: a dequeue that returns a message returns one whose priority is the
\* maximum among the messages that were in the queue.
C4_DequeueHighestPriority ==
    (qlog.op = "dequeue" /\ qlog.result)
        => \A m \in qlog.before[qlog.queue] : m.priority <= qlog.message.priority

\* C5: a message is returned by successful dequeues at most as often as it
\* was enqueued: no enqueued message is handed to two workers.
C5_DequeuedAtMostOnce ==
    \A k \in MsgKeys : deqCount[k] <= enqCount[k]
\* Two loops of one queue are both past their dequeue.
C5_Witness ==
    \E w1 \in Workers, w2 \in Workers :
        /\ w1 # w2 /\ QueueOf(w1) = QueueOf(w2)
        /\ wk[w1].pc # "dequeue" /\ wk[w2].pc # "dequeue"

\* C6: a cancel request that read a PENDING job, whatever its conversion
\* type, goes on to the removal of the job's message, after which no queue
\* holds a message of the job, and when it answers success the row is
\* CANCELLED and still no queue holds a message of the job.
C6_CancelPendingRemoves ==
    [][/\ (cn.pc = "remove" /\ cn' # cn)
            => (cn'.pc = "commit" /\ MessagesOf(cn.job_id)' = {})
       /\ (cn.pc = "commit" /\ cn.loaded = "pending" /\ resp'.op = "cancel"
             /\ resp'.code = "ok")
            => (jobs'[cn.job_id].status = "cancelled" /\ MessagesOf(cn.job_id)' = {})]_vars

C8_CancelProcessingRejected ==
    [][\A j \in JobIds :
         /\ (CancelBegins(j) /\ jobs[j].status = "processing") => CancelRejected(j)
         /\ ~(jobs[j].status = "processing" /\ jobs'[j].status = "cancelled")]_vars

\* C9 as stated: when upload answers success, the row of the job exists with
\* status UPLOADED or PENDING and its file_path names an object in the store.
C9_UploadYieldsRow ==
    (resp.op = "upload" /\ resp.code = "ok")
        => /\ Exists(resp.job_id)
           /\ jobs[resp.job_id].status \in {"uploaded", "pending"}
           /\ jobs[resp.job_id].file_path \in objects

\* C9 amended: when upload answers success, the row of the job exists and its
\* file_path names an object in the store; its status is UPLOADED or PENDING
\* unless a worker has dequeued a message of the job or a cancel or a worker
\* has stamped completed_at in the meantime.
C9_UploadYieldsRowAmended ==
    (resp.op = "upload" /\ resp.code = "ok")
        => /\ Exists(resp.job_id)
           /\ jobs[resp.job_id].file_path \in objects
           /\ \/ jobs[resp.job_id].status \in {"uploaded", "pending"}
              \/ jobs[resp.job_id].completed_at # -1
              \/ \E k \in MsgKeys : k[1] = resp.job_id /\ deqCount[k] > 0
\* Upload has just answered success.
C9_Witness ==
    /\ resp.op = "upload" /\ resp.code = "ok"
    /\ jobs[resp.job_id].status = "pending"

\* C10: the steps of an upload happen in the order object write, row insert,
\* enqueue; a row exists only if its input object was stored before the
\* insert, and a message of a job is queued only after the row was committed.
C10_ProtocolOrder ==
    \A j \in JobIds :
        /\ \E n \in 0..3 : proto[j] = SubSeq(<<"store", "insert", "enqueue">>, 1, n)
        /\ Exists(j) => (Len(proto[j]) >= 2 /\ jobs[j].file_path # <<>>)
        /\ MessagesOf(j) # {} => Len(proto[j]) >= 2
\* A row and a message of the same job are both present.
C10_Witness ==
    \E j \in JobIds : Exists(j) /\ MessagesOf(j) # {} /\ Len(proto[j]) = 3

\* C11: an upload whose Object Store write fails (it leaves STEP 1 with no
\* object stored) answers an error in that step, which changes neither the
\* Job Store nor a queue; afterwards the job has no row and no message.
C11_StoreFailureLeavesNothing ==
    /\ [][\A j \in JobIds :
            (up[j].pc = "store" /\ up'[j].pc # "store" /\ proto'[j] = <<>>)
               => /\ resp'.op = "upload" /\ resp'.job_id = j /\ resp'.code = "500"
                  /\ up'[j].pc = "done"
                  /\ jobs' = jobs
                  /\ queues' = queues]_vars
    /\ [](\A j \in JobIds :
            (up[j].pc \notin {"idle", "store"} /\ proto[j] = <<>>)
               => (~Exists(j) /\ MessagesOf(j) = {}))
\* An upload has just failed at the Object Store write.
C11_Witness ==
    /\ resp.op = "upload" /\ resp.code = "500"
    /\ up[resp.job_id].pc = "done" /\ up[resp.job_id].filename # NONE
    /\ proto[resp.job_id] = <<>>

C13_QueuedImpliesWaiting ==
    \A j \in JobIds :
        MessagesOf(j) # {} => jobs[j].status \in {"uploaded", "pending"}

\* C14: in a retry-uploaded run, each row that was UPLOADED at the scan is
\* enqueued once: if the enqueue adds the message the row is counted as
\* retried and is PENDING when the run answers, otherwise it is counted as
\* failed and the run does not write it; the counts answered are those of the
\* rows retried and failed.  One UPLOADED row and a successful enqueue answer
\* retried = 1 with the row PENDING.
Scanned == {j \in JobIds : rt.rows[j].status # NONE}
Age(j) == now - jobs[j].created_at
DueForCleanup(j) ==
    \/ jobs[j].status \in {"completed", "cancelled"} /\ Age(j) > 24
    \/ jobs[j].status = "failed" /\ Age(j) > 6
CleanupAnswers ==
    cl.pc = "loop" /\ cl.todo = {} /\ resp'.op = "cleanup" /\ resp'.code = "ok"

\* C15 as stated: a cleanup run that answers deletes exactly the rows that
\* are COMPLETED or CANCELLED and older than 24 h or FAILED and older than 6 h.
C15_CleanupDeletesExpired ==
    [][CleanupAnswers =>
         \A j \in JobIds : Exists(j) => (jobs'[j].status = NONE <=> DueForCleanup(j))]_vars

\* C15 amended: a cleanup run that answers deletes exactly those rows that
\* are COMPLETED or CANCELLED and older than 24 h or FAILED and older than 6 h
\* and whose object deletions did not raise; every other row is left as it
\* was, and the count answered is the number of rows deleted.
C15_CleanupDeletesExpiredAmended ==
    [][CleanupAnswers =>
         /\ \A j \in JobIds :
              Exists(j) => /\ jobs'[j].status = NONE
                                <=> (DueForCleanup(j) /\ j \notin cl.errors)
                           /\ jobs'[j].status # NONE => jobs'[j] = jobs[j]
         /\ resp'.n1 = Cardinality({j \in JobIds : Exists(j) /\ jobs'[j].status = NONE})]_vars
\* A cleanup run has answered on a store with a completed row of 30 h and a
\* failed row of 10 h gone, or a failed row of 2 h kept.
C15_Witness ==
    /\ resp.op = "cleanup" /\ resp.code = "ok" /\ resp.n1 = 1
    /\ \E j \in JobIds : jobs[j].status = "failed" /\ Age(j) = 2

\* C16: in a cleanup run that answers, every expired row the run selected is
\* deleted unless the deletion of one of its own objects raised: the failure
\* for one row leaves the deletion of the others in place.
C16_CleanupBestEffort ==
    [][CleanupAnswers =>
         \A j \in JobIds :
            (cl.rows[j].status # NONE /\ j \notin cl.errors) => jobs'[j].status = NONE]_vars
\* A cleanup run has answered after the deletion for one row raised: that row
\* is kept and another was deleted.
C16_Witness ==
    /\ resp.op = "cleanup" /\ resp.code = "ok" /\ resp.n1 = 1
    /\ \E j \in JobIds :
         /\ jobs[j].status \in {"completed", "cancelled"} /\ Age(j) = 30
         /\ jobs[j].file_path \in objects

C18_TimeoutDistinctAndKilled ==
    \A w \in Workers :
        (wk[w].pc = "finish" /\ wk[w].cause = "timeout")
            => /\ ~wk[w].success
               /\ wk[w].err = "Conversion timeout"
               /\ \A c \in Causes \ {"success", "timeout"} :
                     ErrorText(QueueOf(w), wk[w].message.conversion_type, c) # wk[w].err
               /\ wk[w].killed

\* The loops of pool p that are inside _process_job for job j.
Processing(p, j) ==
    {w \in PoolTasks(p) : wk[w].pc \in {"convert", "finish"} /\ wk[w].message.job_id = j}

\* C19: a job id is in the active_jobs of a pool only while a loop of that
\* pool is inside _process_job for it; when _process_job ends for a job,
\* normally, by exception or by cancellation of the task, the id is out of
\* active_jobs unless another loop of the pool is still processing it.
C19_ActiveOnlyWhileProcessing ==
    /\ [](\A p \in Pools : \A j \in pool[p].active_jobs : Processing(p, j) # {})
    /\ [][\A w \in Workers :
            LET j == wk[w].message.job_id
                p == PoolOf(w)
            IN  (wk[w].pc \in {"convert", "finish"}
                 /\ wk'[w].pc \notin {"convert", "finish"}
                 /\ Processing(p, j) = {w})
                => j \notin pool'[p].active_jobs]_vars

\* A task was cancelled inside its conversion: its loop has ended, the row
\* is still PROCESSING, and the id is out of active_jobs.
C19_Witness ==
    \E w \in Workers :
        /\ wk[w].pc = "ended"
        /\ wk[w].cause = "cancelled"
        /\ jobs[wk[w].message.job_id].status = "processing"
        /\ wk[w].message.job_id \notin pool[PoolOf(w)].active_jobs

\* C20: no error raised while processing a job ends a worker loop of a
\* running pool: the step that ends the processing of a job that met an error
\* leaves the loop at its next dequeue and the row of the job FAILED.
C20_ErrorWritesFailed ==
    [][\A w \in Workers :
          LET j == wk[w].message.job_id
          IN  (wk[w].pc = "finish" /\ wk'[w].pc # "finish"
               /\ ~wk[w].success /\ Exists(j)
               /\ pool[PoolOf(w)].is_running)
              => (wk'[w].pc = "dequeue" /\ jobs'[j].status = "failed")]_vars

\* stop() of pool p returns in this step: its gather ends, or it found no
\* task to wait for.
StopReturns(p) ==
    \/ pool[p].stopping /\ ~pool'[p].stopping
    \/ ~pool[p].stopping /\ pool[p].is_running /\ ~pool'[p].is_running
       /\ ~pool'[p].stopping

\* C21: when stop() returns, no loop of the pool is running, worker_tasks and
\* active_jobs are empty, and no conversion subprocess of the pool is alive.
C21_StopLeavesNothing ==
    [][\A p \in Pools :
          StopReturns(p)
          => /\ \A w \in PoolTasks(p) : wk'[w].pc \in {"off", "ended"}
             /\ pool'[p].worker_tasks = {}
             /\ pool'[p].active_jobs = {}
             /\ \A w \in PoolTasks(p) : wk'[w].proc # "alive"]_vars

\* C22: a pool shutdown does not interrupt a conversion that is under way:
\* the job still gets COMPLETED or FAILED.  As a state property: there is no
\* state in which a pool has stopped with all its loops ended, one of them
\* cancelled inside the conversion of a job, and that job is PROCESSING with
\* no message left in any queue (nothing can then write its terminal status).
C22_StopDoesNotInterrupt ==
    \A w \in Workers :
        LET j == wk[w].message.job_id
            p == PoolOf(w)
        IN  ~ /\ wk[w].pc = "ended"
              /\ wk[w].cause = "cancelled"
              /\ ~pool[p].is_running
              /\ ~pool[p].stopping
              /\ \A v \in PoolTasks(p) : wk[v].pc \in {"off", "ended"}
              /\ jobs[j].status = "processing"
              /\ MessagesOf(j) = {}

\* The enqueues of a message for job j that have succeeded so far.
Enqueued(j) == enqCount[<<j, FALSE>>] + enqCount[<<j, TRUE>>]

\* C23: a row has a status other than UPLOADED only if an enqueue of a
\* message for its job succeeded earlier; no step moves a row out of UPLOADED
\* without one.
C23_LeavesUploadedOnlyAfterEnqueue ==
    \A j \in JobIds :
        (Exists(j) /\ jobs[j].status # "uploaded") => Enqueued(j) > 0

\* C24: with no cancel (no administrative request at all has been made), a
\* docx_to_pdf job that has reached COMPLETED has output_path
\* converted/{job_id}.pdf and stays COMPLETED with that output until cleanup
\* deletes its row.
C24_DocxStaysCompleted ==
    [][\A j \in JobIds :
          (served = 0 /\ served' = 0
           /\ jobs[j].status = "completed"
           /\ jobs[j].conversion_type = "docx_to_pdf")
          => /\ jobs[j].output_path = ConvertedPath(j, "pdf")
             /\ jobs'[j].status = "completed"
             /\ jobs'[j].output_path = ConvertedPath(j, "pdf")]_vars

\* A worker loop holds a message of job j it has popped and not yet finished.
Held(j) ==
    \E w \in Workers : wk[w].pc \in {"claim", "convert", "finish"} /\ wk[w].message.job_id = j

\* C25: a job parked at UPLOADED because its enqueue failed is recovered by
\* retry-uploaded: when a run that enqueued a message for it answers, the row
\* is PENDING and its message is on the way to a terminal status (in the queue
\* of its family, or held by a worker loop), or the row is terminal already.
C25_RetryRecovers ==
    [][\A j \in JobIds :
          (rt.pc = "loop" /\ rt.todo = {} /\ j \in rt.marked
           /\ up[j].pc = "done" /\ up[j].loaded = "uploaded"
           /\ enqCount[<<j, FALSE>>] = 0
           /\ resp'.op = "retry" /\ resp'.code = "ok")
          => \/ jobs'[j].status \in Terminal
             \/ /\ jobs'[j].status = "pending"
                /\ MessagesOf(j)' # {} \/ Held(j)']_vars

\* C26: enqueuing a message whose content is identical to one already in the
\* same queue leaves every queue as it was (same entries, same size); two
\* enqueues of a message leave the queue as one enqueue does.
C26_EnqueueIdempotent ==
    /\ [][(qlog'.ops = qlog.ops + 1 /\ qlog'.op = "enqueue"
           /\ qlog'.message \in queues[qlog'.queue])
          => /\ queues' = queues
             /\ Cardinality(queues'[qlog'.queue]) = Cardinality(queues[qlog'.queue])]_vars
    /\ [](\A q \in QueueCallNames, m \in QueueCallMessages :
            LET once == enqueue(queues, q, m, TRUE).queues
            IN  enqueue(once, q, m, TRUE).queues = once)

\* An enqueue has just been called with a message its queue already held.
C26_Witness ==
    /\ qlog.op = "enqueue"
    /\ qlog.message \in qlog.before[qlog.queue]
    /\ Cardinality(qlog.before[qlog.queue]) = 2
    /\ queues = qlog.before

\* C27: the PENDING write of upload and of retry-uploaded never overwrites a
\* status written by a worker: no step takes a row from PROCESSING, COMPLETED
\* or FAILED to PENDING.
C27_PendingNeverOverwritesWorker ==
    [][\A j \in JobIds :
          jobs[j].status \in {"processing", "completed", "failed"}
          => jobs'[j].status # "pending"]_vars

\* The messages of job j that worker loops have popped so far.
Dequeued(j) == deqCount[<<j, FALSE>>] + deqCount[<<j, TRUE>>]

\* C28: at-most-once dispatch per job: the queues never hold two messages
\* for one job id at once, and the loops pop (and so mark PROCESSING) at most
\* one message per job over its lifetime.
C28_AtMostOnceDispatch ==
    \A j \in JobIds :
        /\ Cardinality(MessagesOf(j)) <= 1
        /\ Dequeued(j) <= 1

\* C29: every message a loop's dequeue has popped is handed to _process_job:
\* the next step of a loop that holds a popped message enters _process_job,
\* which marks the job PROCESSING.
C29_PoppedIsProcessed ==
    [][\A w \in Workers :
          (wk[w].pc = "claim" /\ wk'[w].pc # "claim")
          => (wk'[w].pc = "convert" /\ wk'[w].message = wk[w].message
              /\ wk[w].message.job_id \in pool'[PoolOf(w)].active_jobs)]_vars

\* C30: a loop runs the conversion for a popped message only if the row of
\* the job exists and is not CANCELLED, COMPLETED or FAILED when it claims the
\* job; for such a job no output object is written.
C30_ConvertsOnlyWaitingJobs ==
    [][\A w \in Workers :
          LET j == wk[w].message.job_id
          IN  /\ (wk[w].pc = "claim" /\ wk'[w].pc = "convert")
                    => (Exists(j) /\ jobs[j].status \notin Terminal)
              /\ (wk[w].pc = "convert" /\ wk'[w].pc = "finish" /\ objects' # objects)
                    => Exists(j)]_vars

\* C31: every PENDING job leaves PENDING: no job stays PENDING with nothing
\* left to move it.  As a state property, for the rows a worker has written
\* a terminal status to (so that the Job Store was available to it): no such
\* row is PENDING while no message for it is in a queue, no loop holds one,
\* and no cancel of it is under way.
C31_PendingNotStranded ==
    \A j \in JobIds :
        ~ /\ jobs[j].status = "pending"
          /\ jobs[j].completed_at # -1
          /\ MessagesOf(j) = {}
          /\ ~Held(j)
          /\ ~(cn.pc # "idle" /\ cn.job_id = j)

\* C32: when the dequeue of a loop fails on an error of the queue (not the
\* timeout on an empty queue), the loop sleeps before its next dequeue.
C32_DequeueErrorBacksOff ==
    [][\A w \in Workers :
          (wk[w].pc = "dequeue" /\ ~wk[w].dequeue_error /\ wk'[w].dequeue_error)
          => wk'[w].pc = "sleep"]_vars

\* C33: a status update that fails to persist is swallowed and not retried:
\* the step of a loop that writes a status either persists the whole update
\* or leaves the rows as they were, and in both cases the loop goes on (from
\* the claim to the conversion, from the terminal write to its next dequeue)
\* and the job id leaves active_jobs when the processing ends.
C33_FailedUpdateSwallowed ==
    [][\A w \in Workers :
          LET j == wk[w].message.job_id
              p == PoolOf(w)
          IN  /\ (wk[w].pc = "claim" /\ wk'[w].pc # "claim")
                    => /\ wk'[w].pc = "convert"
                       /\ \/ jobs' = jobs
                          \/ jobs' = _update_status(jobs, j, "processing",
                                        [worker_id |-> w, started_at |-> now], TRUE)
              /\ (wk[w].pc = "finish" /\ wk'[w].pc # "finish")
                    => /\ wk'[w].pc = "dequeue"
                       /\ \/ jobs' = jobs
                          \/ jobs' = _update_status(jobs, j, "completed",
                                        [output_path |-> wk[w].out, completed_at |-> now], TRUE)
                          \/ jobs' = _update_status(jobs, j, "failed",
                                        [error_message |-> wk[w].err, completed_at |-> now], TRUE)
                       /\ Processing(p, j) = {w} => j \notin pool'[p].active_jobs]_vars

\* The updates of a job were lost: its only message was popped and its
\* processing has ended, the loops are at their dequeue, no entry is left in
\* active_jobs, and the row still has the status PENDING the manager wrote.
C33_Witness ==
    \E j \in JobIds :
        /\ jobs[j].status = "pending"
        /\ jobs[j].completed_at = -1
        /\ up[j].pc = "done"
        /\ Dequeued(j) = 1
        /\ MessagesOf(j) = {}
        /\ ~Held(j)
        /\ \A p \in Pools : j \notin pool[p].active_jobs
        /\ \A w \in Workers : wk[w].pc = "dequeue"

\* C34: remove_job(queue, job_id) removes every message of that queue whose
\* job_id matches, so that none remains, and leaves the messages of other
\* jobs and all other queues unchanged.
C34_RemoveJobRemovesAll ==
    [][(qlog'.ops = qlog.ops + 1 /\ qlog'.op = "remove_job")
       => LET q == qlog'.queue
              j == qlog'.message.job_id
          IN  /\ queues'[q] = {m \in queues[q] : m.job_id # j}
              /\ \A o \in QueueName \ {q} : queues'[o] = queues[o]]_vars

\* C35: upload, retry-uploaded and cancel map the conversion type of a job
\* to the same queue, the one a worker pool consumes: every queued message is
\* in the queue of its type, and for every row the three maps agree.
C35_OneQueuePerType ==
    /\ \A q \in QueueName : \A m \in queues[q] :
          q = conversion_map(m.conversion_type) /\ q = queue_map(m.conversion_type)
    /\ \A j \in JobIds :
          Exists(j)
          => LET t == jobs[j].conversion_type
             IN  /\ queue_map(t) = conversion_map(t)
                 /\ CancelQueue(t) = conversion_map(t)
                 /\ \E p \in Pools : conversion_map(t) \in PoolQueues(p)

\* C36: enqueue answers true if and only if the message is in the queue
\* after the call.
C36_EnqueueTrueIffPresent ==
    [][(qlog'.ops = qlog.ops + 1 /\ qlog'.op = "enqueue")
       => (qlog'.result <=> qlog'.message \in queues'[qlog'.queue])]_vars

\* C37: the file_path of a row (and the id it is kept under) never changes
\* after the insert: upload's later commit, the status updates of the
\* workers, cancel and retry-uploaded leave it as it is; output_path is
\* written only by the COMPLETED update of a worker, with the output of its
\* conversion.
C37_PathsImmutable ==
    [][\A j \in JobIds :
          /\ (~Exists(j) /\ Exists(j)')
                => /\ jobs'[j].file_path = UploadPath(j, jobs'[j].filename)
                   /\ jobs'[j].output_path = <<>>
          /\ (Exists(j) /\ Exists(j)')
                => /\ jobs'[j].file_path = jobs[j].file_path
                   /\ jobs'[j].output_path # jobs[j].output_path
                        => /\ jobs'[j].status = "completed"
                           /\ \E w \in Workers :
                                /\ wk[w].pc = "finish" /\ wk'[w].pc # "finish"
                                /\ wk[w].success
                                /\ wk[w].message.job_id = j
                                /\ jobs'[j].output_path = wk[w].out]_vars

\* A row a worker has completed and a cancel has then been answered for: it
\* still has the file_path of its upload and the output_path of the worker.
C37_Witness ==
    \E j \in JobIds :
        /\ up[j].pc = "done"
        /\ jobs[j].status = "completed"
        /\ jobs[j].file_path = UploadPath(j, jobs[j].filename)
        /\ jobs[j].output_path # <<>>
        /\ resp.op = "cancel" /\ resp.job_id = j

\* C38: peek leaves the queue unchanged and answers the messages in the
\* order dequeue takes them: the first message of peek(queue, n), n >= 1, is
\* the message the next dequeue on that queue answers.
C38_PeekInDequeueOrder ==
    /\ [][(qlog'.ops = qlog.ops + 1 /\ qlog'.op = "peek")
          => /\ queues' = queues
             /\ qlog'.messages # <<>>
                  => qlog'.messages[1] = dequeue(queues', qlog'.queue, TRUE).message
             /\ queues[qlog'.queue] # {} => qlog'.messages # <<>>]_vars
    /\ [](\A q \in QueueCallNames : \A count \in 1..2 :
            queues[q] # {}
            => peek(queues, q, count)[1] = dequeue(queues, q, TRUE).message)

\* A peek has just answered two messages of a queue, which it left as it was.
C38_Witness ==
    /\ qlog.op = "peek"
    /\ Len(qlog.messages) = 2
    /\ qlog.messages[1].priority # qlog.messages[2].priority
    /\ queues = qlog.before

\* C39: when a retry-uploaded run answers, retried + failed is the number of
\* UPLOADED rows it scanned, and the number of rows the run changes from
\* UPLOADED to PENDING is the retried count it answers.
C39_RetryCountsMatch ==
    [][/\ (rt.pc = "loop" /\ rt.todo = {} /\ resp'.op = "retry" /\ resp'.code = "ok")
            => /\ resp'.n1 + resp'.n2 = Cardinality(Scanned)
               /\ Cardinality({j \in Scanned : /\ jobs[j].status = "uploaded"
                                               /\ jobs'[j].status = "pending"})
                    = resp'.n1
       /\ (rt.pc = "idle" /\ rt'.pc = "idle" /\ resp'.op = "retry" /\ resp'.code = "ok")
            => /\ resp'.n1 = 0 /\ resp'.n2 = 0
               /\ jobs' = jobs]_vars

\* C40: the number of loops of a pool is fixed while it runs: start() on a
\* running pool creates no loop, and whenever no stop() is under way the
\* number of live loops of a pool is 0 if it is stopped and worker_count
\* times the number of its queues if it is running.
LiveLoops(p) == {w \in PoolTasks(p) : wk[w].pc \notin {"off", "ended"}}
====
